---- MODULE Spec2Model ----
(***************************************************************************)
(* Cache-aside layer of the property listing application.                  *)
(*                                                                         *)
(*   properties/utils.py    read-through accessors, metrics, warming       *)
(*   properties/signals.py  post_save / post_delete invalidation handlers  *)
(*   properties/models.py   the Property record                            *)
(*                                                                         *)
(*   properties/views.py    the listing endpoint behind cache_page         *)
(*                                                                         *)
(* Spec        : the repository (db), the cache store (cache) and the      *)
(*               operations on them, executed one at a time.               *)
(* KeySpec     : the location cache key as a function of the location.     *)
(* MetricsSpec : get_redis_cache_metrics() over the store's counters.      *)
(* FaultSpec   : the operations with the store or the database down, or    *)
(*               the store lost in the middle of one.                      *)
(* ViewSpec    : the listing endpoint and its response cache.              *)
(* ClearSpec   : clear_all_property_caches() among the other entries.      *)
(* LocSpec     : per-location entries under writes.                        *)
(* RaceSpec    : two workers, every store call and every database          *)
(*               statement a step of its own.                              *)
(*                                                                         *)
(* Time is counted in seconds; Tick lets TickStep of them pass.  The hit    *)
(* ratio, a float in the code, is the exact fraction [num, den] in lowest  *)
(* terms; its two-decimal rendering hit_ratio_formatted is left out.       *)
(* Strings that the code inspects character by character (locations) are   *)
(* sequences of one-character strings; cache keys are strings.             *)
(* Titles and descriptions are strings: the code only passes them on, to   *)
(* the database and into the response.                                     *)
(***************************************************************************)
EXTENDS Integers, Sequences, FiniteSets, TLC

VARIABLES
    db,              \* the Property table: a set of records
    next_id,         \* next primary key; also the creation instant
    cache,           \* the cache store: key -> [value, ttl (seconds left)]
    last,            \* the operation that has just returned, and its outcome
    location,        \* KeySpec: the location given
    keys,            \* KeySpec: the keys derived from it
    keyspace_hits,   \* MetricsSpec: the store's hit counter
    keyspace_misses, \* MetricsSpec: the store's miss counter
    redis_up,        \* the store (and its statistics interface) is reachable
    metrics,         \* MetricsSpec: outcome of get_redis_cache_metrics()
    db_up,           \* FaultSpec: the database answers
    outage,          \* FaultSpec: the calls the store still answers, if it
                     \*            is about to go away (None: it is not)
    pc,              \* RaceSpec: where each worker is in its call
    local,           \* RaceSpec: each worker's properties_list or write
    held             \* RaceSpec: every record committed, which a caller
                     \* may still hold after its row is gone

vars == <<db, next_id, cache, last, location, keys,
          keyspace_hits, keyspace_misses, redis_up, metrics,
          db_up, outage, pc, local, held>>

mainVars    == <<db, next_id, cache, last>>
keyVars     == <<location, keys>>
metricsVars == <<keyspace_hits, keyspace_misses, redis_up, metrics>>
faultVars   == <<db_up, outage>>
workerVars  == <<pc, local, held>>

(***************************************************************************)
(* Bounds of the model.                                                    *)
(***************************************************************************)
MaxCreates == 2      \* records created in one behaviour
TickStep   == 1800   \* seconds that pass in one Tick
MaxCounter == 100    \* largest value of a store counter
MaxLocLen  == 3      \* KeySpec: longest enumerated location

(***************************************************************************)
(* Program constants.                                                      *)
(***************************************************************************)
ALL_TTL      == 3600     \* utils.py:61
COUNT_TTL    == 3600     \* utils.py:253
LOCATION_TTL == 1800     \* utils.py:208, default cache_timeout

(***************************************************************************)
(* Python values: None and everything else.                                *)
(***************************************************************************)
None    == [none |-> TRUE]
Some(v) == [none |-> FALSE, v |-> v]

(***************************************************************************)
(* str.lower() and str.replace(" ", "_") on character sequences.           *)
(***************************************************************************)
UpperCase == <<"A","B","C","D","E","F","G","H","I","J","K","L","M",
               "N","O","P","Q","R","S","T","U","V","W","X","Y","Z">>
LowerCase == <<"a","b","c","d","e","f","g","h","i","j","k","l","m",
               "n","o","p","q","r","s","t","u","v","w","x","y","z">>

LowerChar(c) ==
    IF \E i \in 1..Len(UpperCase) : UpperCase[i] = c
    THEN LowerCase[CHOOSE i \in 1..Len(UpperCase) : UpperCase[i] = c]
    ELSE c

StrLower(s) == [i \in 1..Len(s) |-> LowerChar(s[i])]

StrReplace(s, old, new) == [i \in 1..Len(s) |-> IF s[i] = old THEN new ELSE s[i]]

RECURSIVE Join(_)
Join(s) == IF s = <<>> THEN "" ELSE Head(s) \o Join(Tail(s))

(***************************************************************************)
(* The location key, once per place that builds it.                        *)
(***************************************************************************)
ReadLocationKey(loc) ==
    "properties_location_" \o Join(StrReplace(StrLower(loc), " ", "_"))

\* Variant: the key is built without lower().
SaveLocationKeyAsWritten(loc) ==
    "properties_location_" \o Join(StrReplace(loc, " ", "_"))

SaveLocationKey(loc) ==
    "properties_location_" \o Join(StrReplace(StrLower(loc), " ", "_"))

\* Variant: the key is built without replace(" ", "_").
DeleteLocationKeyKeepingSpaces(loc) ==
    "properties_location_" \o Join(StrLower(loc))

DeleteLocationKey(loc) ==
    "properties_location_" \o Join(StrReplace(StrLower(loc), " ", "_"))

(***************************************************************************)
(* The cache store (django.core.cache.cache), as the code uses it.         *)
(***************************************************************************)
\* What a call finds in place of the store when the store cannot be reached.
Unreachable == [unreachable |-> TRUE]

\* the client raises (django_redis: ConnectionInterrupted) and none of the
\* callers in utils.py, signals.py or views.py catches it
StoreRaises(c) == c = Unreachable

CacheGet(c, k) == IF k \in DOMAIN c THEN Some(c[k].value) ELSE None

CacheSet(c, k, v, timeout) ==
    [x \in (DOMAIN c) \cup {k} |->
        IF x = k THEN [value |-> v, ttl |-> timeout] ELSE c[x]]

\* Variant: deleting a key that is not there raises.
CacheDeleteStrict(c, k) ==
    [store  |-> [x \in (DOMAIN c) \ {k} |-> c[x]],
     result |-> k \in DOMAIN c,
     raised |-> k \notin DOMAIN c]

\* delete() answers whether the key was there; a missing key is no error.
CacheDelete(c, k) ==
    IF StoreRaises(c)
    THEN [store |-> c, result |-> FALSE, raised |-> TRUE]
    ELSE [store  |-> [x \in (DOMAIN c) \ {k} |-> c[x]],
          result |-> k \in DOMAIN c,
          raised |-> FALSE]

\* The store drops an entry when its time to live has run out.
Expire(c, dt) ==
    LET alive == {k \in DOMAIN c : c[k].ttl > dt}
    IN  [k \in alive |-> [value |-> c[k].value, ttl |-> c[k].ttl - dt]]

\* Every call on the store is a round trip of its own, and the store can go
\* away between two of them.  up tells how long it stays: None, for good;
\* Some(k), for k more calls.  Answered(up, n): it answers the n-th call
\* made from now; StoreAt(c, up, n): what that call finds; Rest(up, n):
\* what is left of up after n calls.
Answered(up, n) == up.none \/ n <= up.v

StoreAt(c, up, n) == IF Answered(up, n) THEN c ELSE Unreachable

Rest(up, n) == IF up.none THEN None ELSE Some(IF up.v > n THEN up.v - n ELSE 0)

\* the calls on the store among the calls e
StoreCalls(e) ==
    Cardinality({i \in 1..Len(e) :
                    e[i][1] \in {"cache.get", "cache.set", "cache.delete"}})

(***************************************************************************)
(* The repository (Property.objects).                                      *)
(***************************************************************************)
\* What a call finds in place of the table when the database fails it.
Unavailable == {[unavailable |-> TRUE]}

\* the query raises (django.db.Error)
QueryRaises(d) == d = Unavailable

RECURSIVE OrderByCreatedDesc(_)
OrderByCreatedDesc(S) ==
    IF S = {} THEN <<>>
    ELSE LET r == CHOOSE x \in S : \A y \in S : y.created_at <= x.created_at
         IN  <<r>> \o OrderByCreatedDesc(S \ {r})

\* location__icontains: case-insensitive substring match
IContains(loc, text) ==
    LET l == StrLower(loc)
        t == StrLower(text)
    IN  \E i \in 0..(Len(l) - Len(t)) : SubSeq(l, i + 1, i + Len(t)) = t

RECURSIVE OrderByCreatedAsc(_)
OrderByCreatedAsc(S) ==
    IF S = {} THEN <<>>
    ELSE LET r == CHOOSE x \in S : \A y \in S : y.created_at >= x.created_at
         IN  <<r>> \o OrderByCreatedAsc(S \ {r})

\* Variant: order_by('created_at'), oldest first.
ObjectsAllOldestFirst(d) == OrderByCreatedAsc(d)

ObjectsAll(d) == OrderByCreatedDesc(d)

ObjectsFilterLocation(d, text) ==
    OrderByCreatedDesc({r \in d : IContains(r.location, text)})

ObjectsCount(d) == Cardinality(d)

(***************************************************************************)
(* utils.py: the read-through accessors.  Each takes the repository d, the *)
(* entries c of the store and how long the store stays (up), and yields    *)
(* the value returned, the entries afterwards and the calls made, in order *)
(* (a delete with its answer).  None of them catches an exception: a call  *)
(* that raises, on the store or on the repository, ends the accessor       *)
(* there, and is the last of its calls.                                    *)
(***************************************************************************)
\* Variant: a hit stores the value again, restarting its time to live.
get_all_properties_touching(d, c, up) ==
    LET cached_properties == CacheGet(c, "all_properties")
        properties_list   == IF cached_properties.none THEN ObjectsAll(d)
                             ELSE cached_properties.v
    IN  [ret    |-> Some(properties_list),
         store  |-> CacheSet(c, "all_properties", properties_list, ALL_TTL),
         hit    |-> ~cached_properties.none,
         raised |-> FALSE,
         events |-> IF cached_properties.none
                    THEN << <<"cache.get", "all_properties">>,
                            <<"db.query", "all">>,
                            <<"cache.set", "all_properties">> >>
                    ELSE << <<"cache.get", "all_properties">> >>]

\* Variant: "if cached_properties:", so that a stored empty list is a miss.
get_all_properties_if_truthy(d, c, up) ==
    LET cached_properties == CacheGet(c, "all_properties")
    IN  IF ~cached_properties.none /\ cached_properties.v # <<>>
        THEN [ret    |-> cached_properties,
              store  |-> c,
              hit    |-> TRUE,
              raised |-> FALSE,
              events |-> << <<"cache.get", "all_properties">> >>]
        ELSE [ret    |-> Some(ObjectsAll(d)),
              store  |-> CacheSet(c, "all_properties", ObjectsAll(d), ALL_TTL),
              hit    |-> FALSE,
              raised |-> FALSE,
              events |-> << <<"cache.get", "all_properties">>,
                            <<"db.query", "all">>,
                            <<"cache.set", "all_properties">> >>]

get_all_properties(d, c, up) ==
    LET cache_key         == "all_properties"
        cached_properties == CacheGet(c, cache_key)
    IN  IF StoreRaises(StoreAt(c, up, 1))
        THEN [ret    |-> None,
              store  |-> c,
              hit    |-> FALSE,
              raised |-> TRUE,
              events |-> << <<"cache.get", cache_key>> >>]
        ELSE IF ~cached_properties.none
        THEN [ret    |-> cached_properties,
              store  |-> c,
              hit    |-> TRUE,
              raised |-> FALSE,
              events |-> << <<"cache.get", cache_key>> >>]
        ELSE IF QueryRaises(d)
        THEN [ret    |-> None,
              store  |-> c,
              hit    |-> FALSE,
              raised |-> TRUE,
              events |-> << <<"cache.get", cache_key>>,
                            <<"db.query", "all">> >>]
        ELSE LET properties_list == ObjectsAll(d)
             IN  IF StoreRaises(StoreAt(c, up, 2))
                 THEN [ret    |-> None,
                       store  |-> c,
                       hit    |-> FALSE,
                       raised |-> TRUE,
                       events |-> << <<"cache.get", cache_key>>,
                                     <<"db.query", "all">>,
                                     <<"cache.set", cache_key>> >>]
                 ELSE
                 [ret    |-> Some(properties_list),
                  store  |-> CacheSet(c, cache_key, properties_list, ALL_TTL),
                  hit    |-> FALSE,
                  raised |-> FALSE,
                  events |-> << <<"cache.get", cache_key>>,
                                <<"db.query", "all">>,
                                <<"cache.set", cache_key>> >>]

clear_properties_cache(c, up) ==
    LET cache_key == "all_properties"
        deleted   == CacheDelete(StoreAt(c, up, 1), cache_key)
    IN  [ret    |-> IF deleted.raised THEN None ELSE Some(deleted.result),
         store  |-> IF deleted.raised THEN c ELSE deleted.store,
         raised |-> deleted.raised,
         events |-> << <<"cache.delete", cache_key, deleted.result>> >>]

warm_cache(d, c, up) ==
    LET got == get_all_properties(d, c, up)
    IN  [ret    |-> IF got.raised THEN None ELSE Some(Len(got.ret.v)),
         store  |-> got.store,
         hit    |-> got.hit,
         raised |-> got.raised,
         events |-> got.events]

get_properties_by_location(d, c, loc, cache_timeout, up) ==
    LET cache_key == ReadLocationKey(loc)
        cached    == CacheGet(c, cache_key)
    IN  IF StoreRaises(StoreAt(c, up, 1))
        THEN [ret    |-> None,
              store  |-> c,
              hit    |-> FALSE,
              raised |-> TRUE,
              events |-> << <<"cache.get", cache_key>> >>]
        ELSE IF ~cached.none
        THEN [ret    |-> cached,
              store  |-> c,
              hit    |-> TRUE,
              raised |-> FALSE,
              events |-> << <<"cache.get", cache_key>> >>]
        ELSE IF QueryRaises(d)
        THEN [ret    |-> None,
              store  |-> c,
              hit    |-> FALSE,
              raised |-> TRUE,
              events |-> << <<"cache.get", cache_key>>,
                            <<"db.query", "filter">> >>]
        ELSE LET properties == ObjectsFilterLocation(d, loc)
             IN  IF StoreRaises(StoreAt(c, up, 2))
                 THEN [ret    |-> None,
                       store  |-> c,
                       hit    |-> FALSE,
                       raised |-> TRUE,
                       events |-> << <<"cache.get", cache_key>>,
                                     <<"db.query", "filter">>,
                                     <<"cache.set", cache_key>> >>]
                 ELSE
                 [ret    |-> Some(properties),
                  store  |-> CacheSet(c, cache_key, properties, cache_timeout),
                  hit    |-> FALSE,
                  raised |-> FALSE,
                  events |-> << <<"cache.get", cache_key>>,
                                <<"db.query", "filter">>,
                                <<"cache.set", cache_key>> >>]

\* Variant: the count is returned but never stored.
get_property_count_not_storing(d, c, up) ==
    LET count == CacheGet(c, "property_count")
    IN  IF ~count.none
        THEN [ret |-> count, store |-> c, hit |-> TRUE, raised |-> FALSE,
              events |-> << <<"cache.get", "property_count">> >>]
        ELSE [ret |-> Some(ObjectsCount(d)), store |-> c, hit |-> FALSE,
              raised |-> FALSE,
              events |-> << <<"cache.get", "property_count">>,
                            <<"db.query", "count">> >>]

\* Variant: a count that cannot be read is taken to be 0.
get_property_count_zero_on_error(d, c, up) ==
    LET n == IF QueryRaises(d) THEN 0 ELSE ObjectsCount(d)
    IN  IF StoreRaises(StoreAt(c, up, 1))
        THEN [ret |-> None, store |-> c, hit |-> FALSE, raised |-> TRUE,
              events |-> << <<"cache.get", "property_count">> >>]
        ELSE IF "property_count" \in DOMAIN c
        THEN [ret |-> CacheGet(c, "property_count"), store |-> c,
              hit |-> TRUE, raised |-> FALSE,
              events |-> << <<"cache.get", "property_count">> >>]
        ELSE [ret |-> IF Answered(up, 2) THEN Some(n) ELSE None,
              store |-> IF Answered(up, 2)
                        THEN CacheSet(c, "property_count", n, COUNT_TTL)
                        ELSE c,
              hit |-> FALSE, raised |-> ~Answered(up, 2),
              events |-> << <<"cache.get", "property_count">>,
                            <<"db.query", "count">>,
                            <<"cache.set", "property_count">> >>]

get_property_count(d, c, up) ==
    LET cache_key == "property_count"
        count     == CacheGet(c, cache_key)
    IN  IF StoreRaises(StoreAt(c, up, 1))
        THEN [ret    |-> None,
              store  |-> c,
              hit    |-> FALSE,
              raised |-> TRUE,
              events |-> << <<"cache.get", cache_key>> >>]
        ELSE IF ~count.none
        THEN [ret    |-> count,
              store  |-> c,
              hit    |-> TRUE,
              raised |-> FALSE,
              events |-> << <<"cache.get", cache_key>> >>]
        ELSE IF QueryRaises(d)
        THEN [ret    |-> None,
              store  |-> c,
              hit    |-> FALSE,
              raised |-> TRUE,
              events |-> << <<"cache.get", cache_key>>,
                            <<"db.query", "count">> >>]
        ELSE LET n == ObjectsCount(d)
             IN  IF StoreRaises(StoreAt(c, up, 2))
                 THEN [ret    |-> None,
                       store  |-> c,
                       hit    |-> FALSE,
                       raised |-> TRUE,
                       events |-> << <<"cache.get", cache_key>>,
                                     <<"db.query", "count">>,
                                     <<"cache.set", cache_key>> >>]
                 ELSE
                 [ret    |-> Some(n),
                  store  |-> CacheSet(c, cache_key, n, COUNT_TTL),
                  hit    |-> FALSE,
                  raised |-> FALSE,
                  events |-> << <<"cache.get", cache_key>>,
                                <<"db.query", "count">>,
                                <<"cache.set", cache_key>> >>]

(***************************************************************************)
(* views.py: the listing endpoint GET /properties/ and the response cache  *)
(* that @cache_page puts in front of it, in the same store under two keys  *)
(* of its own: one for the list of request headers the response varies     *)
(* with (none here), looked up first, and one for the response.            *)
(***************************************************************************)
HEADER_KEY == "views.decorators.cache.cache_header./properties/"

RESPONSE_KEY == "views.decorators.cache.cache_page.GET./properties/"

PAGE_TTL == 60 * 15

\* str(prop.price) of a DecimalField with two decimal places
PriceStr(price) == ToString(price) \o ".00"

\* created_at.isoformat(); created_at counts the seconds of the creation day
IsoFormat(created_at) == "2024-01-01T00:00:0" \o ToString(created_at)

\* one element of properties_data (created_at is auto_now_add: always set)
PropertyData(prop) ==
    [id          |-> prop.id,
     title       |-> prop.title,
     description |-> prop.description,
     price       |-> PriceStr(prop.price),
     location    |-> prop.location,
     created_at  |-> IsoFormat(prop.created_at)]

\* the view function itself
property_list(d, c, up) ==
    LET got == get_all_properties(d, c, up)
    IN  IF got.raised
        THEN [ret |-> None, store |-> got.store, raised |-> TRUE,
              events |-> got.events]
        ELSE LET properties      == got.ret.v
                 properties_data ==
                     [i \in 1..Len(properties) |-> PropertyData(properties[i])]
             IN  [ret    |-> Some([properties |-> properties_data,
                                   count      |-> Len(properties_data)]),
                  store  |-> got.store,
                  raised |-> FALSE,
                  events |-> got.events]

\* What @cache_page does once the view is to run: the view, then the header
\* list and the response stored, each for PAGE_TTL seconds.  e0 are the
\* lookups made so far.
cache_page_update(d, c, up, e0) ==
    LET r  == property_list(d, c, Rest(up, Len(e0)))
        e  == e0 \o r.events
        e1 == e \o << <<"cache.set", HEADER_KEY>> >>
        e2 == e1 \o << <<"cache.set", RESPONSE_KEY>> >>
        s1 == CacheSet(r.store, HEADER_KEY, <<>>, PAGE_TTL)
    IN  IF r.raised
        THEN [ret |-> None, store |-> r.store, hit |-> FALSE,
              raised |-> TRUE, events |-> e]
        ELSE IF StoreRaises(StoreAt(r.store, up, StoreCalls(e1)))
        THEN [ret |-> None, store |-> r.store, hit |-> FALSE,
              raised |-> TRUE, events |-> e1]
        ELSE IF StoreRaises(StoreAt(s1, up, StoreCalls(e2)))
        THEN [ret |-> None, store |-> s1, hit |-> FALSE,
              raised |-> TRUE, events |-> e2]
        ELSE [ret    |-> r.ret,
              store  |-> CacheSet(s1, RESPONSE_KEY, r.ret.v, PAGE_TTL),
              hit    |-> FALSE,
              raised |-> FALSE,
              events |-> e2]

\* @cache_page(60 * 15) around property_list: the header list is looked up
\* and, if it is there, the response; a stored response is returned as it
\* is; otherwise the view runs and its response is stored.
cache_page(d, c, up) ==
    LET headerlist == CacheGet(c, HEADER_KEY)
        response   == CacheGet(c, RESPONSE_KEY)
        e1 == << <<"cache.get", HEADER_KEY>> >>
        e2 == e1 \o << <<"cache.get", RESPONSE_KEY>> >>
    IN  IF StoreRaises(StoreAt(c, up, 1))
        THEN [ret |-> None, store |-> c, hit |-> FALSE, raised |-> TRUE,
              events |-> e1]
        ELSE IF headerlist.none
        THEN cache_page_update(d, c, up, e1)
        ELSE IF StoreRaises(StoreAt(c, up, 2))
        THEN [ret |-> None, store |-> c, hit |-> FALSE, raised |-> TRUE,
              events |-> e2]
        ELSE IF ~response.none
        THEN [ret |-> response, store |-> c, hit |-> TRUE, raised |-> FALSE,
              events |-> e2]
        ELSE cache_page_update(d, c, up, e2)

(***************************************************************************)
(* signals.py: the invalidation handlers.  A call that raises ends the     *)
(* handler there, with the deletions made before it made.  post_save is    *)
(* sent after the save is committed; post_delete is sent before the        *)
(* delete is, inside its transaction.                                      *)
(***************************************************************************)
\* Variant: an update leaves 'all_properties' alone; only a create clears it.
on_save_keeping_list_on_update(instance, created, c, up) ==
    LET d1 == IF created THEN CacheDelete(StoreAt(c, up, 1), "all_properties")
              ELSE [store |-> c, result |-> FALSE, raised |-> FALSE]
        e1 == IF created THEN << <<"cache.delete", "all_properties", d1.result>> >>
              ELSE <<>>
        has_loc            == instance.location # <<>>
        location_cache_key == SaveLocationKey(instance.location)
        d2 == IF has_loc THEN CacheDelete(d1.store, location_cache_key)
              ELSE [store |-> d1.store, result |-> FALSE, raised |-> FALSE]
        e2 == IF has_loc
              THEN e1 \o << <<"cache.delete", location_cache_key, d2.result>> >>
              ELSE e1
        d3 == CacheDelete(d2.store, "property_count")
    IN  [store |-> d3.store, raised |-> FALSE,
         events |-> e2 \o << <<"cache.delete", "property_count", d3.result>> >>]

\* Variant: a save leaves 'property_count' alone.
on_save_keeping_count(instance, created, c, up) ==
    LET d1 == CacheDelete(StoreAt(c, up, 1), "all_properties")
        e1 == << <<"cache.delete", "all_properties", d1.result>> >>
        has_loc            == instance.location # <<>>
        location_cache_key == SaveLocationKey(instance.location)
        d2 == IF has_loc THEN CacheDelete(d1.store, location_cache_key)
              ELSE [store |-> d1.store, result |-> FALSE, raised |-> FALSE]
        e2 == IF has_loc
              THEN e1 \o << <<"cache.delete", location_cache_key, d2.result>> >>
              ELSE e1
    IN  [store |-> d2.store, raised |-> d1.raised, events |-> e2]

\* Variant: a save deletes every location list (delete_pattern).
on_save_clearing_every_location(instance, created, c, up) ==
    LET d1 == CacheDelete(StoreAt(c, up, 1), "all_properties")
        d3 == CacheDelete(d1.store, "property_count")
        location_cache_key == SaveLocationKey(instance.location)
        e2 == IF instance.location # <<>>
              THEN << <<"cache.delete", location_cache_key,
                        location_cache_key \in DOMAIN c>> >>
              ELSE <<>>
    IN  [store |-> [k \in DOMAIN d3.store \cap {HEADER_KEY, RESPONSE_KEY} |->
                       d3.store[k]],
         raised |-> d1.raised,
         events |-> << <<"cache.delete", "all_properties", d1.result>> >>
                    \o e2
                    \o << <<"cache.delete", "property_count", d3.result>> >>]

\* Variant: a save also deletes the stored response of the listing endpoint.
on_save_clearing_response(instance, created, c, up) ==
    LET d1 == CacheDelete(StoreAt(c, up, 1), "all_properties")
        e1 == << <<"cache.delete", "all_properties", d1.result>> >>
        has_loc            == instance.location # <<>>
        location_cache_key == SaveLocationKey(instance.location)
        d2 == IF has_loc THEN CacheDelete(d1.store, location_cache_key)
              ELSE [store |-> d1.store, result |-> FALSE, raised |-> FALSE]
        e2 == IF has_loc
              THEN e1 \o << <<"cache.delete", location_cache_key, d2.result>> >>
              ELSE e1
        d3 == CacheDelete(d2.store, "property_count")
        d4 == CacheDelete(d3.store, RESPONSE_KEY)
        d5 == CacheDelete(d4.store, HEADER_KEY)
    IN  [store |-> d5.store, raised |-> d1.raised,
         events |-> e2 \o << <<"cache.delete", "property_count", d3.result>> >>]

invalidate_property_cache_on_save(instance, created, c, up) ==
    LET cache_key == "all_properties"
        d1        == CacheDelete(StoreAt(c, up, 1), cache_key)
        e1        == << <<"cache.delete", cache_key, d1.result>> >>
    IN  IF d1.raised THEN [store |-> c, raised |-> TRUE, events |-> e1]
        ELSE
        LET has_loc            == instance.location # <<>>
            location_cache_key == SaveLocationKey(instance.location)
            d2 == IF has_loc
                  THEN CacheDelete(StoreAt(d1.store, up, 2), location_cache_key)
                  ELSE [store |-> d1.store, result |-> FALSE, raised |-> FALSE]
            e2 == IF has_loc
                  THEN e1 \o << <<"cache.delete", location_cache_key, d2.result>> >>
                  ELSE e1
        IN  IF d2.raised THEN [store |-> d1.store, raised |-> TRUE, events |-> e2]
            ELSE
            LET d3 == CacheDelete(StoreAt(d2.store, up, StoreCalls(e2) + 1),
                                  "property_count")
                e3 == e2 \o << <<"cache.delete", "property_count", d3.result>> >>
            IN  IF d3.raised
                THEN [store |-> d2.store, raised |-> TRUE, events |-> e3]
                ELSE [store |-> d3.store, raised |-> FALSE, events |-> e3]

\* Variant: a delete also removes the list of every query that the
\* record's location contains.
on_delete_clearing_matching_queries(instance, c, up) ==
    LET d1 == CacheDelete(StoreAt(c, up, 1), "all_properties")
        d3 == CacheDelete(d1.store, "property_count")
        location_cache_key == DeleteLocationKey(instance.location)
        matching == {ReadLocationKey(SubSeq(instance.location, i, j)) :
                        i \in 1..Len(instance.location),
                        j \in 1..Len(instance.location)}
        e2 == IF instance.location # <<>>
              THEN << <<"cache.delete", location_cache_key,
                        location_cache_key \in DOMAIN c>> >>
              ELSE <<>>
    IN  [store |-> [k \in DOMAIN d3.store \ matching |-> d3.store[k]],
         raised |-> d1.raised,
         events |-> << <<"cache.delete", "all_properties", d1.result>> >>
                    \o e2
                    \o << <<"cache.delete", "property_count", d3.result>> >>]

invalidate_property_cache_on_delete(instance, c, up) ==
    LET cache_key == "all_properties"
        d1        == CacheDelete(StoreAt(c, up, 1), cache_key)
        e1        == << <<"cache.delete", cache_key, d1.result>> >>
    IN  IF d1.raised THEN [store |-> c, raised |-> TRUE, events |-> e1]
        ELSE
        LET has_loc            == instance.location # <<>>
            location_cache_key == DeleteLocationKey(instance.location)
            d2 == IF has_loc
                  THEN CacheDelete(StoreAt(d1.store, up, 2), location_cache_key)
                  ELSE [store |-> d1.store, result |-> FALSE, raised |-> FALSE]
            e2 == IF has_loc
                  THEN e1 \o << <<"cache.delete", location_cache_key, d2.result>> >>
                  ELSE e1
        IN  IF d2.raised THEN [store |-> d1.store, raised |-> TRUE, events |-> e2]
            ELSE
            LET d3 == CacheDelete(StoreAt(d2.store, up, StoreCalls(e2) + 1),
                                  "property_count")
                e3 == e2 \o << <<"cache.delete", "property_count", d3.result>> >>
            IN  IF d3.raised
                THEN [store |-> d2.store, raised |-> TRUE, events |-> e3]
                ELSE [store |-> d3.store, raised |-> FALSE, events |-> e3]

\* Variant: the whole store is emptied (cache.clear()).
clear_all_by_flushing(c, up) ==
    [store |-> IF Answered(up, 1) THEN [k \in {} |-> c[k]] ELSE c,
     raised |-> ~Answered(up, 1),
     events |-> << <<"cache.delete", "all_properties",
                     "all_properties" \in DOMAIN c>>,
                   <<"cache.delete", "property_count",
                     "property_count" \in DOMAIN c>> >>]

clear_all_property_caches(c, up) ==
    LET d1 == CacheDelete(StoreAt(c, up, 1), "all_properties")
        e1 == << <<"cache.delete", "all_properties", d1.result>> >>
    IN  IF d1.raised THEN [store |-> c, raised |-> TRUE, events |-> e1]
        ELSE
        LET d2 == CacheDelete(StoreAt(d1.store, up, 2), "property_count")
            e2 == e1 \o << <<"cache.delete", "property_count", d2.result>> >>
        IN  IF d2.raised
            THEN [store |-> d1.store, raised |-> TRUE, events |-> e2]
            ELSE [store |-> d2.store, raised |-> FALSE, events |-> e2]

(***************************************************************************)
(* Inputs.                                                                 *)
(***************************************************************************)
Austin      == <<"A","u","s","t","i","n">>
AustinLower == <<"a","u","s","t","i","n">>
AustinTX    == <<"A","u","s","t","i","n",","," ","T","X">>
MiamiFL     == <<"M","i","a","m","i",","," ","F","L">>
MiamiFLLower == <<"m","i","a","m","i",","," ","f","l">>

Locations == {<<>>, Austin}          \* location of a record
Queries   == {Austin, AustinLower}   \* location asked for
Prices    == {100, 150}
Titles       == {"Beach House"}
Descriptions == {"By the sea"}

(***************************************************************************)
(* Spec: one operation at a time on the repository and the store.          *)
(*                                                                         *)
(* last records the operation that has just returned: its name, argument,  *)
(* whether the cache answered, the value returned, whether it raised, the  *)
(* calls it made in order, and (inval) the 'all_properties' value that the *)
(* writes just before it removed from the store.                           *)
(***************************************************************************)
Idle == [op |-> "idle", arg |-> None, hit |-> FALSE, ret |-> None,
         raised |-> FALSE, events |-> <<>>, inval |-> None]

WriteOps == {"create", "update", "delete"}

\* The 'all_properties' value that the write about to run removes, or the
\* one removed by the writes immediately before it.
Invalidated ==
    IF "all_properties" \in DOMAIN cache
    THEN Some(cache["all_properties"].value)
    ELSE IF last.op \in WriteOps THEN last.inval ELSE None

\* The repository as a call finds it, how long the store stays for the
\* call beginning now, and the store's standing after a call that made
\* the calls e: gone, if one of them was the last it answered or found it
\* gone.
Repository == IF db_up THEN db ELSE Unavailable
Up         == IF redis_up THEN outage ELSE Some(0)

Connection(e) ==
    LET n == StoreCalls(e)
    IN  /\ redis_up' = (redis_up /\ (outage.none \/ n < outage.v))
        /\ outage' = IF redis_up /\ ~outage.none /\ n < outage.v
                      THEN Some(outage.v - n)
                      ELSE None

\* Model.save() of a new instance: INSERT, commit, then post_save.  (The
\* writes are those the database accepts: a rejected one sends no signal.)
\* post_save is sent once the transaction of the statement is over.  The
\* whole call, with no other call under way; RaceSpec takes the commit and
\* the handler's deletions one by one (CommitCreate .. DeleteCount).
Create(title, description, price, loc) ==
    /\ db_up
    /\ next_id <= MaxCreates
    /\ LET instance == [id |-> next_id, title |-> title,
                        description |-> description, price |-> price,
                        location |-> loc, created_at |-> next_id]
           h == invalidate_property_cache_on_save(instance, TRUE, cache, Up)
       IN  /\ db' = db \cup {instance}
           /\ next_id' = next_id + 1
           /\ cache' = h.store
           /\ Connection(h.events)
           /\ last' = [op |-> "create", arg |-> Some(instance), hit |-> FALSE,
                       ret |-> None, raised |-> h.raised,
                       events |-> << <<"db.commit", "insert">> >> \o h.events,
                       inval |-> Invalidated]
    /\ UNCHANGED <<keyVars, keyspace_hits, keyspace_misses,
                   metrics, db_up, workerVars>>

\* Model.save() of an existing instance: UPDATE, commit, then post_save.
Update(r, title, description, price, loc) ==
    /\ db_up
    /\ r \in db
    /\ LET instance == [r EXCEPT !.title = title,
                                 !.description = description,
                                 !.price = price, !.location = loc]
           h == invalidate_property_cache_on_save(instance, FALSE, cache, Up)
       IN  /\ db' = (db \ {r}) \cup {instance}
           /\ cache' = h.store
           /\ Connection(h.events)
           /\ last' = [op |-> "update", arg |-> Some(instance), hit |-> FALSE,
                       ret |-> None, raised |-> h.raised,
                       events |-> << <<"db.commit", "update">> >> \o h.events,
                       inval |-> Invalidated]
    /\ UNCHANGED <<next_id, keyVars, keyspace_hits, keyspace_misses,
                   metrics, db_up, workerVars>>

\* Model.delete(): the DELETE statement, post_delete, then the commit: the
\* signal is sent inside the transaction of the statement, so a handler
\* that raises has the DELETE rolled back.  The whole call, with no other
\* call under way; RaceSpec takes it step by step (StatementDelete ..
\* CommitDelete).
Delete(r) ==
    /\ db_up
    /\ r \in db
    /\ LET h == invalidate_property_cache_on_delete(r, cache, Up)
       IN  /\ db' = IF h.raised THEN db ELSE db \ {r}
           /\ cache' = h.store
           /\ Connection(h.events)
           /\ last' = [op |-> "delete", arg |-> Some(r), hit |-> FALSE,
                       ret |-> None, raised |-> h.raised,
                       events |-> << <<"db.statement", "delete">> >>
                                  \o h.events
                                  \o << <<IF h.raised THEN "db.rollback"
                                          ELSE "db.commit", "delete">> >>,
                       inval |-> Invalidated]
    /\ UNCHANGED <<next_id, keyVars, keyspace_hits, keyspace_misses,
                   metrics, db_up, workerVars>>

GetAllProperties ==
    /\ LET g == get_all_properties(Repository, cache, Up)
       IN  /\ cache' = g.store
           /\ Connection(g.events)
           /\ last' = [op |-> "get_all_properties", arg |-> None, hit |-> g.hit,
                       ret |-> g.ret, raised |-> g.raised, events |-> g.events,
                       inval |-> IF last.op \in WriteOps THEN last.inval ELSE None]
    /\ UNCHANGED <<db, next_id, keyVars, keyspace_hits, keyspace_misses,
                   metrics, db_up, workerVars>>

WarmCache ==
    /\ LET g == warm_cache(Repository, cache, Up)
       IN  /\ cache' = g.store
           /\ Connection(g.events)
           /\ last' = [op |-> "warm_cache", arg |-> None, hit |-> g.hit,
                       ret |-> g.ret, raised |-> g.raised, events |-> g.events,
                       inval |-> None]
    /\ UNCHANGED <<db, next_id, keyVars, keyspace_hits, keyspace_misses,
                   metrics, db_up, workerVars>>

GetPropertiesByLocation(loc) ==
    /\ LET g == get_properties_by_location(Repository, cache, loc, LOCATION_TTL,
                                        Up)
       IN  /\ cache' = g.store
           /\ Connection(g.events)
           /\ last' = [op |-> "get_properties_by_location", arg |-> Some(loc),
                       hit |-> g.hit, ret |-> g.ret, raised |-> g.raised,
                       events |-> g.events, inval |-> None]
    /\ UNCHANGED <<db, next_id, keyVars, keyspace_hits, keyspace_misses,
                   metrics, db_up, workerVars>>

GetPropertyCount ==
    /\ LET g == get_property_count(Repository, cache, Up)
       IN  /\ cache' = g.store
           /\ Connection(g.events)
           /\ last' = [op |-> "get_property_count", arg |-> None, hit |-> g.hit,
                       ret |-> g.ret, raised |-> g.raised, events |-> g.events,
                       inval |-> None]
    /\ UNCHANGED <<db, next_id, keyVars, keyspace_hits, keyspace_misses,
                   metrics, db_up, workerVars>>

ClearPropertiesCache ==
    /\ LET g == clear_properties_cache(cache, Up)
       IN  /\ cache' = g.store
           /\ Connection(g.events)
           /\ last' = [op |-> "clear_properties_cache", arg |-> None,
                       hit |-> FALSE, ret |-> g.ret, raised |-> g.raised,
                       events |-> g.events, inval |-> None]
    /\ UNCHANGED <<db, next_id, keyVars, keyspace_hits, keyspace_misses,
                   metrics, db_up, workerVars>>

\* clear_all_property_caches(), the whole call with no other call under
\* way; RaceSpec takes its two deletions one by one (ClearList, ClearCount).
ClearAllPropertyCaches ==
    /\ LET g == clear_all_property_caches(cache, Up)
       IN  /\ cache' = g.store
           /\ Connection(g.events)
           /\ last' = [op |-> "clear_all_property_caches", arg |-> None,
                       hit |-> FALSE, ret |-> None, raised |-> g.raised,
                       events |-> g.events, inval |-> None]
    /\ UNCHANGED <<db, next_id, keyVars, keyspace_hits, keyspace_misses,
                   metrics, db_up, workerVars>>

\* GET /properties/
PropertyList ==
    /\ LET g == cache_page(Repository, cache, Up)
       IN  /\ cache' = g.store
           /\ Connection(g.events)
           /\ last' = [op |-> "property_list", arg |-> None, hit |-> g.hit,
                       ret |-> g.ret, raised |-> g.raised, events |-> g.events,
                       inval |-> None]
    /\ UNCHANGED <<db, next_id, keyVars, keyspace_hits, keyspace_misses,
                   metrics, db_up, workerVars>>

\* Time passes; the store expires what has run out.
Tick ==
    /\ cache' = Expire(cache, TickStep)
    /\ last' = Idle
    /\ UNCHANGED <<db, next_id, keyVars, metricsVars, faultVars, workerVars>>

EmptyCache == [k \in {} |-> None]

\* the workers of RaceSpec
Workers == {1, 2}

Init ==
    /\ db = {}
    /\ next_id = 1
    /\ cache = EmptyCache
    /\ last = Idle
    /\ location = <<>>
    /\ keys = None
    /\ keyspace_hits = 0
    /\ keyspace_misses = 0
    /\ redis_up = TRUE
    /\ metrics = None
    /\ db_up = TRUE
    /\ outage = None
    /\ pc = [w \in Workers |-> "idle"]
    /\ local = [w \in Workers |-> None]
    /\ held = {}

Next ==
    \/ \E title \in Titles, description \in Descriptions,
          price \in Prices, loc \in Locations :
          Create(title, description, price, loc)
    \/ \E r \in db, title \in Titles, description \in Descriptions,
          price \in Prices, loc \in Locations :
          Update(r, title, description, price, loc)
    \/ \E r \in db : Delete(r)
    \/ GetAllProperties
    \/ WarmCache
    \/ \E loc \in Queries : GetPropertiesByLocation(loc)
    \/ GetPropertyCount
    \/ ClearPropertiesCache
    \/ ClearAllPropertyCaches
    \/ Tick

Spec == Init /\ [][Next]_vars

(***************************************************************************)
(* KeySpec: the location key, derived at each of the three places that     *)
(* build it, for locations over a small alphabet and the named examples.   *)
(***************************************************************************)
KeyAlphabet == {"A", "a", " ", "_"}

KeyLocations ==
    UNION {[1..n -> KeyAlphabet] : n \in 0..MaxLocLen}
        \cup {Austin, AustinLower, AustinTX, MiamiFL, MiamiFLLower}

ChooseLocation(loc) ==
    /\ location' = loc
    /\ keys' = None
    /\ UNCHANGED <<mainVars, metricsVars, faultVars, workerVars>>

DeriveKeys ==
    /\ keys.none
    /\ keys' = Some([read   |-> ReadLocationKey(location),
                     save   |-> SaveLocationKey(location),
                     delete |-> DeleteLocationKey(location)])
    /\ UNCHANGED <<location, mainVars, metricsVars, faultVars, workerVars>>

KeyNext ==
    \/ \E loc \in KeyLocations : ChooseLocation(loc)
    \/ DeriveKeys

KeySpec == Init /\ [][KeyNext]_vars

(***************************************************************************)
(* MetricsSpec: get_redis_cache_metrics() over the store's counters.       *)
(***************************************************************************)
RECURSIVE GCD(_, _)
GCD(a, b) == IF b = 0 THEN a ELSE GCD(b, a % b)

\* the fraction n/d (d > 0) in lowest terms
Fraction(n, d) == LET g == GCD(n, d) IN [num |-> n \div g, den |-> d \div g]

Zero == [num |-> 0, den |-> 1]

\* f >= n for a fraction f and an integer n
AtLeast(f, n) == f.num >= n * f.den

\* Variant: the ratio is not turned into a percentage.
HitRatioNotPercent(hits, total_requests) ==
    IF total_requests > 0
    THEN Fraction(hits, total_requests)
    ELSE Zero

\* hit_ratio = (keyspace_hits / total_requests) * 100, or 0.0
HitRatio(hits, total_requests) ==
    IF total_requests > 0
    THEN Fraction(hits * 100, total_requests)
    ELSE Zero

\* the band that is logged
Classify(hit_ratio) ==
    IF AtLeast(hit_ratio, 80) THEN "EXCELLENT"
    ELSE IF AtLeast(hit_ratio, 60) THEN "GOOD"
    ELSE IF AtLeast(hit_ratio, 40) THEN "FAIR"
    ELSE "POOR"

\* Variant: the except branch logs and raises again.
MetricsFailureRaisedAgain(e) ==
    [ret |-> None, raised |-> TRUE, logged |-> "ERROR"]

\* the except branch: the failure is logged and a zeroed dict returned
MetricsFailure(e) ==
    [ret    |-> Some([error |-> e,
                      keyspace_hits |-> 0,
                      keyspace_misses |-> 0,
                      total_requests |-> 0,
                      hit_ratio |-> Zero]),
     raised |-> FALSE,
     logged |-> "ERROR"]

get_redis_cache_metrics(up, hits, misses) ==
    IF ~up
    THEN \* get_redis_connection() or info() raised
         MetricsFailure("ConnectionError")
    ELSE LET total_requests == hits + misses
             hit_ratio      == HitRatio(hits, total_requests)
         IN  [ret    |-> Some([keyspace_hits |-> hits,
                               keyspace_misses |-> misses,
                               total_requests |-> total_requests,
                               hit_ratio |-> hit_ratio]),
              raised |-> FALSE,
              logged |-> Classify(hit_ratio)]

\* a lookup in the store that found its key
KeyspaceHit ==
    /\ keyspace_hits < MaxCounter
    /\ keyspace_hits' = keyspace_hits + 1
    /\ metrics' = None
    /\ UNCHANGED <<keyspace_misses, redis_up, mainVars, keyVars, faultVars, workerVars>>

\* a lookup in the store that did not
KeyspaceMiss ==
    /\ keyspace_misses < MaxCounter
    /\ keyspace_misses' = keyspace_misses + 1
    /\ metrics' = None
    /\ UNCHANGED <<keyspace_hits, redis_up, mainVars, keyVars, faultVars, workerVars>>

RedisDown ==
    /\ redis_up
    /\ redis_up' = FALSE
    /\ outage' = None
    /\ metrics' = None
    /\ last' = Idle
    /\ UNCHANGED <<keyspace_hits, keyspace_misses, db, next_id, cache, keyVars,
                   db_up, workerVars>>

\* The store will go away once it has answered k more calls.
RedisDownAfter(k) ==
    /\ redis_up
    /\ outage.none
    /\ outage' = Some(k)
    /\ metrics' = None
    /\ last' = Idle
    /\ UNCHANGED <<keyspace_hits, keyspace_misses, redis_up, db, next_id, cache,
                   keyVars, db_up, workerVars>>

RedisUp ==
    /\ ~redis_up
    /\ redis_up' = TRUE
    /\ metrics' = None
    /\ last' = Idle
    /\ UNCHANGED <<keyspace_hits, keyspace_misses, db, next_id, cache, keyVars,
                   faultVars, workerVars>>

GetRedisCacheMetrics ==
    /\ metrics' = Some(get_redis_cache_metrics(redis_up, keyspace_hits,
                                               keyspace_misses))
    /\ UNCHANGED <<keyspace_hits, keyspace_misses, redis_up, mainVars, keyVars, faultVars, workerVars>>

MetricsNext ==
    \/ KeyspaceHit
    \/ KeyspaceMiss
    \/ RedisDown
    \/ RedisUp
    \/ GetRedisCacheMetrics

MetricsSpec == Init /\ [][MetricsNext]_vars

(***************************************************************************)
(* FaultSpec: the operations while the store or the database may be out of *)
(* reach.  The store may be gone when an operation begins or go away       *)
(* between two of the operation's calls on it (RedisDownAfter); the        *)
(* database fails or answers for a whole operation.                        *)
(***************************************************************************)
DbDown ==
    /\ db_up
    /\ db_up' = FALSE
    /\ last' = Idle
    /\ UNCHANGED <<db, next_id, cache, keyVars, metricsVars, outage, workerVars>>

DbUp ==
    /\ ~db_up
    /\ db_up' = TRUE
    /\ last' = Idle
    /\ UNCHANGED <<db, next_id, cache, keyVars, metricsVars, outage, workerVars>>

OnePrice == {100}

\* the calls after which the store may go away in the middle of an operation
Outages == 1..5

FaultNext ==
    \/ RedisDown
    \/ \E k \in Outages : RedisDownAfter(k)
    \/ RedisUp
    \/ DbDown
    \/ DbUp
    \/ \E title \in Titles, description \in Descriptions,
          price \in OnePrice :
          Create(title, description, price, Austin)
    \/ \E r \in db : Delete(r)
    \/ GetAllProperties
    \/ GetPropertiesByLocation(Austin)
    \/ GetPropertyCount
    \/ PropertyList

FaultSpec == Init /\ [][FaultNext]_vars

(***************************************************************************)
(* ViewSpec: the listing endpoint behind its response cache, with writes,  *)
(* the other accessors and the administrative clear, in steps of time      *)
(* short enough to tell the response's time to live from the others.       *)
(***************************************************************************)
Waits == {PAGE_TTL \div 2, PAGE_TTL}

ViewLocations == {AustinTX}

\* what an update of ViewSpec may write
ViewTitles       == Titles \cup {"Luxury Beach House"}
ViewDescriptions == Descriptions

Wait(dt) ==
    /\ cache' = Expire(cache, dt)
    /\ last' = Idle
    /\ UNCHANGED <<db, next_id, keyVars, metricsVars, faultVars, workerVars>>

ViewNext ==
    \/ \E title \in Titles, description \in Descriptions,
          price \in OnePrice, loc \in ViewLocations :
          Create(title, description, price, loc)
    \/ \E r \in db, title \in ViewTitles, description \in ViewDescriptions :
          Update(r, title, description, r.price, r.location)
    \/ \E r \in db : Delete(r)
    \/ PropertyList
    \/ GetAllProperties
    \/ ClearAllPropertyCaches
    \/ \E dt \in Waits : Wait(dt)

ViewSpec == Init /\ [][ViewNext]_vars

(***************************************************************************)
(* ClearSpec: the administrative clear among entries of every kind: the    *)
(* list, the count, a location list and the stored response.               *)
(***************************************************************************)
ClearNext ==
    \/ \E title \in Titles, description \in Descriptions,
          price \in OnePrice, loc \in ViewLocations :
          Create(title, description, price, loc)
    \/ PropertyList
    \/ GetPropertiesByLocation(Austin)
    \/ GetPropertyCount
    \/ ClearAllPropertyCaches
    \/ \E dt \in Waits : Wait(dt)

ClearSpec == Init /\ [][ClearNext]_vars

(***************************************************************************)
(* LocSpec: records that move between locations and the location lists,    *)
(* among them a list asked for by a part ('Austin') of a record's location *)
(* ('Austin, TX').                                                         *)
(***************************************************************************)
LocLocations == {Austin, AustinTX, MiamiFL}
LocQueries   == {Austin, AustinTX}
LocWaits     == {LOCATION_TTL \div 2}

LocNext ==
    \/ \E title \in Titles, description \in Descriptions,
          price \in OnePrice, loc \in LocLocations :
          Create(title, description, price, loc)
    \/ \E r \in db, price \in OnePrice, loc \in LocLocations :
          Update(r, r.title, r.description, price, loc)
    \/ \E r \in db : Delete(r)
    \/ \E loc \in LocQueries : GetPropertiesByLocation(loc)
    \/ \E dt \in LocWaits : Wait(dt)

LocSpec == Init /\ [][LocNext]_vars

(***************************************************************************)
(* RaceSpec: get_all_properties() run by several workers at once.  The     *)
(* call is three steps with nothing to hold the others off between them:   *)
(* the lookup (utils.py:40-45), the query (51-55) and the store (61-66).   *)
(* A create is the reading of the clock for created_at, the INSERT with    *)
(* its commit and then the handler's three deletions; a delete is the      *)
(* statement, the handler's three deletions and then the commit, whether   *)
(* its row is still there or not; clear_all_property_caches() is two       *)
(* deletions, likewise with nothing held between them; any worker's step   *)
(* may come between any two.                                               *)
(***************************************************************************)
get_all_properties_lookup(c) == CacheGet(c, "all_properties")

get_all_properties_query(d) == ObjectsAll(d)

\* Variant: the list is added to the one that is there.
get_all_properties_store_appending(c, properties_list) ==
    CacheSet(c, "all_properties",
             IF "all_properties" \in DOMAIN c
             THEN c["all_properties"].value \o properties_list
             ELSE properties_list,
             ALL_TTL)

\* Variant: cache.add(), which stores only what is not there.
get_all_properties_store_if_absent(c, properties_list) ==
    IF "all_properties" \in DOMAIN c THEN c
    ELSE CacheSet(c, "all_properties", properties_list, ALL_TTL)

get_all_properties_store(c, properties_list) ==
    CacheSet(c, "all_properties", properties_list, ALL_TTL)

\* cache.get and "is not None": return on a hit, go on to the query on a miss
Lookup(w) ==
    /\ pc[w] = "idle"
    /\ LET cached_properties == get_all_properties_lookup(cache)
       IN  IF ~cached_properties.none
           THEN /\ last' = [op |-> "get_all_properties", arg |-> None,
                            hit |-> TRUE, ret |-> cached_properties,
                            raised |-> FALSE,
                            events |-> << <<"cache.get", "all_properties">> >>,
                            inval |-> None]
                /\ pc' = pc
           ELSE /\ last' = Idle
                /\ pc' = [pc EXCEPT ![w] = "missed"]
    /\ UNCHANGED <<db, next_id, cache, local, held,
                   keyVars, metricsVars, faultVars>>

\* list(Property.objects.all().order_by('-created_at'))
Query(w) ==
    /\ pc[w] = "missed"
    /\ local' = [local EXCEPT ![w] = Some(get_all_properties_query(db))]
    /\ pc' = [pc EXCEPT ![w] = "queried"]
    /\ last' = Idle
    /\ UNCHANGED <<db, next_id, cache, held, keyVars, metricsVars, faultVars>>

\* cache.set and return
StoreList(w) ==
    /\ pc[w] = "queried"
    /\ cache' = get_all_properties_store(cache, local[w].v)
    /\ last' = [op |-> "get_all_properties", arg |-> None, hit |-> FALSE,
                ret |-> local[w], raised |-> FALSE,
                events |-> << <<"cache.get", "all_properties">>,
                              <<"db.query", "all">>,
                              <<"cache.set", "all_properties">> >>,
                inval |-> None]
    /\ local' = [local EXCEPT ![w] = None]
    /\ pc' = [pc EXCEPT ![w] = "idle"]
    /\ UNCHANGED <<db, next_id, held, keyVars, metricsVars, faultVars>>

\* The store calls of the handlers and of clear_all_property_caches(), one
\* at a time: each is a round trip to the store, with nothing held between
\* one and the next.
handler_delete_list(c) == CacheDelete(c, "all_properties")

handler_delete_location(op, instance, c) ==
    IF instance.location = <<>>
    THEN [store |-> c, events |-> <<>>]
    ELSE LET location_cache_key ==
                 IF op = "delete" THEN DeleteLocationKey(instance.location)
                 ELSE SaveLocationKey(instance.location)
             d == CacheDelete(c, location_cache_key)
         IN  [store  |-> d.store,
              events |-> << <<"cache.delete", location_cache_key, d.result>> >>]

handler_delete_count(c) == CacheDelete(c, "property_count")

\* The clock as auto_now_add reads it: later than every reading taken, by
\* the creates committed and by those still to commit.
Now == next_id + Cardinality({w \in Workers : pc[w] = "stamped"})

\* Model.save() of a new instance before its INSERT: auto_now_add sets
\* created_at; the id comes with the INSERT.
StampCreate(w, title, description, price, loc) ==
    /\ pc[w] = "idle"
    /\ Now <= MaxCreates
    /\ local' = [local EXCEPT ![w] =
                    Some([op |-> "create",
                          unsaved |-> [title |-> title,
                                       description |-> description,
                                       price |-> price, location |-> loc,
                                       created_at |-> Now]])]
    /\ pc' = [pc EXCEPT ![w] = "stamped"]
    /\ last' = Idle
    /\ UNCHANGED <<db, next_id, cache, held, keyVars, metricsVars,
                   faultVars>>

\* Model.save() of a new instance: the INSERT and its commit; post_save
\* comes next.
CommitCreate(w) ==
    /\ pc[w] = "stamped"
    /\ LET unsaved  == local[w].v.unsaved
           instance == [id |-> next_id, title |-> unsaved.title,
                        description |-> unsaved.description,
                        price |-> unsaved.price,
                        location |-> unsaved.location,
                        created_at |-> unsaved.created_at]
       IN  /\ db' = db \cup {instance}
           /\ local' = [local EXCEPT ![w] =
                           Some([op |-> "create", instance |-> instance,
                                 events |-> << <<"db.commit", "insert">> >>])]
           /\ held' = held \cup {instance}
    /\ next_id' = next_id + 1
    /\ pc' = [pc EXCEPT ![w] = "signalled"]
    /\ last' = Idle
    /\ UNCHANGED <<cache, keyVars, metricsVars, faultVars>>

\* a delete() of r by worker w runs: it has sent its DELETE statement
\* and has not committed yet
Deleting(w, r) ==
    /\ pc[w] \in {"signalled", "list_deleted", "location_deleted", "handled"}
    /\ local[w].v.op = "delete"
    /\ local[w].v.instance = r

\* Model.delete() up to post_delete: the DELETE statement, in a transaction
\* that is still open, so that the other workers' queries still find the
\* row; a DELETE of a row that is there and that another transaction is
\* deleting waits for that transaction.  The row may be gone already: the
\* statement then finds no row and waits for nothing, whatever the other
\* workers are doing, and post_delete is sent all the same.
StatementDelete(w, r) ==
    /\ pc[w] = "idle"
    /\ r \in held
    /\ r \in db => \A v \in Workers : ~Deleting(v, r)
    /\ local' = [local EXCEPT ![w] =
                    Some([op |-> "delete", instance |-> r,
                          events |-> << <<"db.statement", "delete">> >>])]
    /\ pc' = [pc EXCEPT ![w] = "signalled"]
    /\ last' = Idle
    /\ UNCHANGED <<db, next_id, cache, held, keyVars, metricsVars,
                   faultVars>>

\* the handler's cache.delete('all_properties')
DeleteList(w) ==
    /\ pc[w] = "signalled"
    /\ LET d == handler_delete_list(cache)
       IN  /\ cache' = d.store
           /\ local' = [local EXCEPT ![w].v.events =
                           @ \o << <<"cache.delete", "all_properties",
                                     d.result>> >>]
    /\ pc' = [pc EXCEPT ![w] = "list_deleted"]
    /\ last' = Idle
    /\ UNCHANGED <<db, next_id, held, keyVars, metricsVars, faultVars>>

\* the handler's "if instance.location:" and the cache.delete under it
DeleteLocation(w) ==
    /\ pc[w] = "list_deleted"
    /\ LET d == handler_delete_location(local[w].v.op, local[w].v.instance,
                                        cache)
       IN  /\ cache' = d.store
           /\ local' = [local EXCEPT ![w].v.events = @ \o d.events]
    /\ pc' = [pc EXCEPT ![w] = "location_deleted"]
    /\ last' = Idle
    /\ UNCHANGED <<db, next_id, held, keyVars, metricsVars, faultVars>>

\* the handler's cache.delete('property_count'); save() returns, delete()
\* has its commit to make
DeleteCount(w) ==
    /\ pc[w] = "location_deleted"
    /\ LET d == handler_delete_count(cache)
           e == local[w].v.events
                \o << <<"cache.delete", "property_count", d.result>> >>
       IN  /\ cache' = d.store
           /\ IF local[w].v.op = "delete"
              THEN /\ local' = [local EXCEPT ![w].v.events = e]
                   /\ pc' = [pc EXCEPT ![w] = "handled"]
                   /\ last' = Idle
              ELSE /\ local' = [local EXCEPT ![w] = None]
                   /\ pc' = [pc EXCEPT ![w] = "idle"]
                   /\ last' = [op |-> local[w].v.op,
                               arg |-> Some(local[w].v.instance),
                               hit |-> FALSE, ret |-> None, raised |-> FALSE,
                               events |-> e, inval |-> None]
    /\ UNCHANGED <<db, next_id, held, keyVars, metricsVars, faultVars>>

\* Model.delete(): the transaction commits, the row is gone if it was still
\* there; delete() returns
CommitDelete(w) ==
    /\ pc[w] = "handled"
    /\ db' = db \ {local[w].v.instance}
    /\ last' = [op |-> "delete", arg |-> Some(local[w].v.instance),
                hit |-> FALSE, ret |-> None, raised |-> FALSE,
                events |-> local[w].v.events
                           \o << <<"db.commit", "delete">> >>,
                inval |-> None]
    /\ local' = [local EXCEPT ![w] = None]
    /\ pc' = [pc EXCEPT ![w] = "idle"]
    /\ UNCHANGED <<next_id, cache, held, keyVars, metricsVars, faultVars>>

\* clear_all_property_caches(): its cache.delete('all_properties')
ClearList(w) ==
    /\ pc[w] = "idle"
    /\ LET d == handler_delete_list(cache)
       IN  /\ cache' = d.store
           /\ local' = [local EXCEPT ![w] =
                           Some([op |-> "clear_all_property_caches",
                                 events |-> << <<"cache.delete",
                                                 "all_properties",
                                                 d.result>> >>])]
    /\ pc' = [pc EXCEPT ![w] = "clearing"]
    /\ last' = Idle
    /\ UNCHANGED <<db, next_id, held, keyVars, metricsVars, faultVars>>

\* clear_all_property_caches(): its cache.delete('property_count'); returns
ClearCount(w) ==
    /\ pc[w] = "clearing"
    /\ LET d == handler_delete_count(cache)
       IN  /\ cache' = d.store
           /\ last' = [op |-> "clear_all_property_caches", arg |-> None,
                       hit |-> FALSE, ret |-> None, raised |-> FALSE,
                       events |-> local[w].v.events
                                  \o << <<"cache.delete", "property_count",
                                          d.result>> >>,
                       inval |-> None]
    /\ local' = [local EXCEPT ![w] = None]
    /\ pc' = [pc EXCEPT ![w] = "idle"]
    /\ UNCHANGED <<db, next_id, held, keyVars, metricsVars, faultVars>>

RaceNext ==
    \/ \E w \in Workers : Lookup(w)
    \/ \E w \in Workers : Query(w)
    \/ \E w \in Workers : StoreList(w)
    \/ \E w \in Workers, title \in Titles, description \in Descriptions,
          price \in OnePrice :
          StampCreate(w, title, description, price, Austin)
    \/ \E w \in Workers : CommitCreate(w)
    \/ \E w \in Workers, r \in held : StatementDelete(w, r)
    \/ \E w \in Workers : DeleteList(w)
    \/ \E w \in Workers : DeleteLocation(w)
    \/ \E w \in Workers : DeleteCount(w)
    \/ \E w \in Workers : CommitDelete(w)
    \/ \E w \in Workers : ClearList(w)
    \/ \E w \in Workers : ClearCount(w)
    \/ ClearPropertiesCache
    \/ Tick

RaceSpec == Init /\ [][RaceNext]_vars

(***************************************************************************)
(* Properties.                                                             *)
(***************************************************************************)

\* seq lists exactly the records of S, newest first
NewestFirst(seq, S) ==
    /\ Len(seq) = Cardinality(S)
    /\ {seq[i] : i \in 1..Len(seq)} = S
    /\ \A i, j \in 1..Len(seq) : i < j => seq[i].created_at > seq[j].created_at

AustinKey == "properties_location_austin"

\* C1: with operations run one at a time, every get_all_properties() that
\* returns yields exactly the records committed so far, newest first: a
\* write removes the cached list, so the read after it goes to the
\* repository and does not return the list as it was before the write.
C1_ReadReflectsWrites ==
    last.op = "get_all_properties" => NewestFirst(last.ret.v, db)

\* A read right after an update from price 100 to price 150 of a record that
\* the cached list held: the read returns 150.
C1_Witness ==
    /\ last.op = "get_all_properties"
    /\ ~last.hit
    /\ ~last.inval.none
    /\ \E i \in 1..Len(last.inval.v), j \in 1..Len(last.ret.v) :
          /\ last.inval.v[i].id = last.ret.v[j].id
          /\ last.inval.v[i].price = 100
          /\ last.ret.v[j].price = 150

\* the deletions among the calls e of a write to a record located at loc
\* are those of 'all_properties', of the location's key if there is a
\* location, and of 'property_count', in this order
DeletionsMade(loc, e) ==
    LET deletions == SelectSeq(e, LAMBDA x : x[1] = "cache.delete")
    IN  /\ Len(deletions) = (IF loc = <<>> THEN 2 ELSE 3)
        /\ deletions[1][2] = "all_properties"
        /\ loc = Austin => deletions[2][2] = AustinKey
        /\ deletions[Len(deletions)][2] = "property_count"

\* C2 as claimed: when a create, update or delete has returned, the write
\* is in the repository, it was committed before the first cache deletion,
\* the deletions were of 'all_properties', of the key of the record's
\* location if that is not empty, and of 'property_count', and those keys
\* are absent from the store.
C2_WriteInvalidates ==
    last.op \in WriteOps =>
        LET instance == last.arg.v
        IN  /\ ~last.raised
            /\ (last.op = "delete") = (instance \notin db)
            /\ last.events[1] =
                  <<"db.commit",
                    IF last.op = "create" THEN "insert" ELSE last.op>>
            /\ DeletionsMade(instance.location, last.events)
            /\ "all_properties" \notin DOMAIN cache
            /\ "property_count" \notin DOMAIN cache
            /\ instance.location = Austin => AustinKey \notin DOMAIN cache

\* no call in e went to the repository
NoQuery(e) == \A i \in 1..Len(e) : e[i][1] # "db.query"

\* C3: a get_all_properties() that finds 'all_properties' in the store
\* returns the stored value, makes no repository query and changes neither
\* the store (values and remaining times to live) nor the repository.
C3_HitHasNoEffect ==
    [][(last'.op = "get_all_properties" /\ "all_properties" \in DOMAIN cache) =>
          /\ last'.hit
          /\ ~last'.raised
          /\ last'.ret = Some(cache["all_properties"].value)
          /\ NoQuery(last'.events)
          /\ cache' = cache
          /\ db' = db]_vars

\* A hit on a list of two records stored one Tick earlier.
C3_Witness ==
    /\ last.op = "get_all_properties"
    /\ last.hit
    /\ Len(last.ret.v) = 2
    /\ cache["all_properties"].ttl = 3600 - TickStep

\* C4: a get_all_properties() that does not find 'all_properties' queries
\* the repository once for all records, newest first, stores that sequence
\* under 'all_properties' for 3600 seconds and returns it; the other
\* entries and the repository stay as they were.
C4_MissFillsFromRepository ==
    [][(last'.op = "get_all_properties" /\ "all_properties" \notin DOMAIN cache) =>
          /\ ~last'.hit
          /\ NewestFirst(last'.ret.v, db)
          /\ last'.events = << <<"cache.get", "all_properties">>,
                               <<"db.query", "all">>,
                               <<"cache.set", "all_properties">> >>
          /\ DOMAIN cache' = (DOMAIN cache) \cup {"all_properties"}
          /\ cache'["all_properties"] = [value |-> last'.ret.v, ttl |-> 3600]
          /\ \A k \in DOMAIN cache : cache'[k] = cache[k]
          /\ db' = db]_vars

\* A miss that has stored and returned two records, the newer one first.
C4_Witness ==
    /\ last.op = "get_all_properties"
    /\ ~last.hit
    /\ Len(last.ret.v) = 2
    /\ last.ret.v[1].created_at > last.ret.v[2].created_at
    /\ cache["all_properties"] = [value |-> last.ret.v, ttl |-> 3600]

\* C5: 'properties_location_austin' enters the store only through a
\* get_properties_by_location that misses, and then with the value returned
\* and 1800 seconds to live; after get_properties_by_location('Austin') it
\* is present; after a create, update or delete whose record has location
\* 'Austin' when the handler runs it is absent.
C5_LocationKeyLifeCycle ==
    [][/\ (AustinKey \notin DOMAIN cache /\ AustinKey \in DOMAIN cache') =>
             /\ last'.op = "get_properties_by_location"
             /\ ~last'.hit
             /\ cache'[AustinKey] = [value |-> last'.ret.v, ttl |-> 1800]
       /\ (last'.op = "get_properties_by_location" /\ last'.arg.v = Austin) =>
             AustinKey \in DOMAIN cache'
       /\ (last'.op \in WriteOps /\ last'.arg.v.location = Austin) =>
             AustinKey \notin DOMAIN cache']_vars

\* An update of a record located in Austin that removed the key, which a
\* read had stored after the record was created.
C5_Witness ==
    /\ last.op = "update"
    /\ last.arg.v.location = Austin
    /\ \E i \in 1..Len(last.events) :
          last.events[i] = <<"cache.delete", AustinKey, TRUE>>
    /\ AustinKey \notin DOMAIN cache

\* the location with upper-case letters lowered and spaces as underscores
ExpectedKeyChars(loc) ==
    [i \in 1..Len(loc) |-> IF loc[i] = " " THEN "_" ELSE LowerChar(loc[i])]

\* C6: the read path, the save handler and the delete handler derive the
\* same key from a location: 'properties_location_' followed by the
\* location in lower case with '_' for every space; locations that differ
\* only in letter case get the same key ('Miami, FL' and 'miami, fl' both
\* get 'properties_location_miami,_fl').
C6_LocationKey ==
    ~keys.none =>
        /\ keys.v.read = "properties_location_" \o Join(ExpectedKeyChars(location))
        /\ keys.v.save = keys.v.read
        /\ keys.v.delete = keys.v.read
        /\ \A other \in KeyLocations :
              StrLower(other) = StrLower(location) =>
                  /\ ReadLocationKey(other) = keys.v.read
                  /\ SaveLocationKey(other) = keys.v.read
                  /\ DeleteLocationKey(other) = keys.v.read
        /\ location \in {MiamiFL, MiamiFLLower} =>
              keys.v.read = "properties_location_miami,_fl"

\* The three keys derived from 'Miami, FL'.
C6_Witness ==
    /\ location = MiamiFL
    /\ ~keys.none
    /\ keys.v = [read   |-> "properties_location_miami,_fl",
                 save   |-> "properties_location_miami,_fl",
                 delete |-> "properties_location_miami,_fl"]

\* C7: a get_property_count() that finds 'property_count' returns the
\* stored integer, queries nothing and changes nothing; one that does not
\* find it returns the number of records in the repository and stores it
\* under 'property_count' for 3600 seconds, leaving the other entries and
\* the repository as they were.
C7_CountReadThrough ==
    [][/\ (last'.op = "get_property_count" /\ "property_count" \in DOMAIN cache) =>
             /\ last'.hit
             /\ last'.ret = Some(cache["property_count"].value)
             /\ NoQuery(last'.events)
             /\ cache' = cache
             /\ db' = db
       /\ (last'.op = "get_property_count" /\ "property_count" \notin DOMAIN cache) =>
             /\ ~last'.hit
             /\ last'.ret = Some(Cardinality(db))
             /\ last'.events = << <<"cache.get", "property_count">>,
                                  <<"db.query", "count">>,
                                  <<"cache.set", "property_count">> >>
             /\ DOMAIN cache' = (DOMAIN cache) \cup {"property_count"}
             /\ cache'["property_count"] = [value |-> Cardinality(db), ttl |-> 3600]
             /\ \A k \in DOMAIN cache : cache'[k] = cache[k]
             /\ db' = db]_vars

\* A hit that returns the count 2 stored one Tick earlier.
C7_Witness ==
    /\ last.op = "get_property_count"
    /\ last.hit
    /\ last.ret = Some(2)
    /\ Cardinality(db) = 2
    /\ cache["property_count"] = [value |-> 2, ttl |-> 3600 - TickStep]

BothAbsent == << <<"cache.delete", "all_properties", FALSE>>,
                 <<"cache.delete", "property_count", FALSE>> >>

\* C8: clear_all_property_caches() never raises, makes both deletions and
\* leaves 'all_properties' and 'property_count' absent; called right after
\* itself it finds both keys missing and leaves the store as it was; and
\* no write and no clear_properties_cache() raises, whichever keys are
\* missing.
C8_ClearAllIdempotent ==
    [][/\ last'.op = "clear_all_property_caches" =>
             /\ ~last'.raised
             /\ Len(last'.events) = 2
             /\ "all_properties" \notin DOMAIN cache'
             /\ "property_count" \notin DOMAIN cache'
       /\ (last.op = "clear_all_property_caches"
             /\ last'.op = "clear_all_property_caches") =>
             /\ last'.events = BothAbsent
             /\ cache' = cache
       /\ last'.op \in WriteOps \cup {"clear_properties_cache"} =>
             ~last'.raised]_vars

\* clear_all_property_caches() has returned without raising, having found
\* neither key.
C8_Witness ==
    /\ last.op = "clear_all_property_caches"
    /\ last.events = BothAbsent
    /\ ~last.raised
    /\ db # {}

\* the band of hits out of total, in whole numbers
Band(hits, total) ==
    IF total > 0 /\ 100 * hits >= 80 * total THEN "EXCELLENT"
    ELSE IF total > 0 /\ 100 * hits >= 60 * total THEN "GOOD"
    ELSE IF total > 0 /\ 100 * hits >= 40 * total THEN "FAIR"
    ELSE "POOR"

\* C9: with the statistics reachable, get_redis_cache_metrics() returns
\* the two counters, their sum as total, and as hit ratio hits / total * 100
\* if total > 0 and 0 if total = 0; the band logged is excellent from 80,
\* good from 60, fair from 40 and poor below; 80 hits and 20 misses give
\* ratio 80 and 'excellent'.
C9_HitRatio ==
    (~metrics.none /\ redis_up) =>
        /\ ~metrics.v.raised
        /\ LET m     == metrics.v.ret.v
               total == keyspace_hits + keyspace_misses
           IN  /\ m.keyspace_hits = keyspace_hits
               /\ m.keyspace_misses = keyspace_misses
               /\ m.total_requests = total
               /\ m.hit_ratio.den > 0
               /\ total > 0 =>
                     m.hit_ratio.num * total = keyspace_hits * 100 * m.hit_ratio.den
               /\ total = 0 => m.hit_ratio = [num |-> 0, den |-> 1]
               /\ metrics.v.logged = Band(keyspace_hits, total)
               /\ (keyspace_hits = 80 /\ keyspace_misses = 20) =>
                     /\ m.hit_ratio = [num |-> 80, den |-> 1]
                     /\ metrics.v.logged = "EXCELLENT"

\* The metrics of 80 hits and 20 misses.
C9_Witness ==
    /\ ~metrics.none
    /\ redis_up
    /\ keyspace_hits = 80
    /\ keyspace_misses = 20
    /\ metrics.v.ret.v.total_requests = 100
    /\ metrics.v.ret.v.hit_ratio = [num |-> 80, den |-> 1]

\* C10: with the statistics unreachable, get_redis_cache_metrics() returns
\* instead of raising, and what it returns has an 'error' entry, which a
\* normal result has not, and zero hits, misses, total and hit ratio.
C10_MetricsUnavailable ==
    ~metrics.none =>
        /\ ~metrics.v.raised
        /\ ~metrics.v.ret.none
        /\ LET m == metrics.v.ret.v
           IN  /\ ("error" \in DOMAIN m) = ~redis_up
               /\ ~redis_up =>
                     /\ m.keyspace_hits = 0
                     /\ m.keyspace_misses = 0
                     /\ m.total_requests = 0
                     /\ m.hit_ratio = [num |-> 0, den |-> 1]

\* The result returned while the statistics are unreachable and the store
\* has counted 80 hits.
C10_Witness ==
    /\ ~metrics.none
    /\ ~redis_up
    /\ keyspace_hits = 80
    /\ "error" \in DOMAIN metrics.v.ret.v
    /\ metrics.v.ret.v.keyspace_hits = 0

\* C20: an empty result is stored like any other.  After a
\* get_all_properties() or get_properties_by_location() that returned the
\* empty list, or a get_property_count() that returned 0, the value is in
\* the store, and the same call made next is a hit that returns it without
\* a repository query.
C20_EmptyResultIsCached ==
    [][/\ (last.op = "get_all_properties" /\ last.ret = Some(<<>>)) =>
             /\ CacheGet(cache, "all_properties") = Some(<<>>)
             /\ last'.op = "get_all_properties" =>
                   (last'.hit /\ last'.ret = Some(<<>>) /\ NoQuery(last'.events))
       /\ (last.op = "get_properties_by_location" /\ last.ret = Some(<<>>)) =>
             /\ CacheGet(cache, ReadLocationKey(last.arg.v)) = Some(<<>>)
             /\ (last'.op = "get_properties_by_location" /\ last'.arg = last.arg) =>
                   (last'.hit /\ last'.ret = Some(<<>>) /\ NoQuery(last'.events))
       /\ (last.op = "get_property_count" /\ last.ret = Some(0)) =>
             /\ CacheGet(cache, "property_count") = Some(0)
             /\ last'.op = "get_property_count" =>
                   (last'.hit /\ last'.ret = Some(0) /\ NoQuery(last'.events))]_vars

\* A hit that returns the empty list stored for 'Austin' while the
\* repository holds a record located elsewhere.
C20_Witness ==
    /\ last.op = "get_properties_by_location"
    /\ last.hit
    /\ last.ret = Some(<<>>)
    /\ db # {}

ReadOps == {"get_all_properties", "get_properties_by_location",
            "get_property_count", "property_list"}

\* what the repository holds for a read, as the read returns it
RepositoryResult(op, arg) ==
    CASE op = "get_all_properties" -> ObjectsAll(db)
      [] op = "get_properties_by_location" -> ObjectsFilterLocation(db, arg.v)
      [] op = "get_property_count" -> ObjectsCount(db)
      [] op = "property_list" ->
            [properties |-> [i \in 1..Cardinality(db) |->
                                PropertyData(ObjectsAll(db)[i])],
             count |-> Cardinality(db)]

\* C11: a read made while the store cannot be reached (and the database
\* answers) does not fail: it returns the repository's current result.
C11_OutageNeverBlocksReads ==
    [][(/\ last'.op \in ReadOps
        /\ ~redis_up /\ ~redis_up'
        /\ db_up)
       => (/\ ~last'.raised
           /\ last'.ret = Some(RepositoryResult(last'.op, last'.arg)))]_vars

\* C12 as claimed: a write during which the store goes, or is, out of
\* reach does not fail, is committed and stays so, and each of its
\* deletions ('all_properties', the location key if the record has a
\* location, 'property_count') is attempted, once.
C12_DeletionsIndependent ==
    [][(/\ last'.op \in WriteOps
        /\ ~redis_up')
       => (LET instance == last'.arg.v
           IN  /\ ~last'.raised
               /\ (last'.op = "delete") = (instance \notin db')
               /\ DeletionsMade(instance.location, last'.events))]_vars

\* the read finds nothing to answer from in the store c and goes to the
\* repository
ReadMisses(op, arg, c) ==
    CASE op = "get_all_properties" -> "all_properties" \notin DOMAIN c
      [] op = "get_properties_by_location" ->
            ReadLocationKey(arg.v) \notin DOMAIN c
      [] op = "get_property_count" -> "property_count" \notin DOMAIN c
      [] op = "property_list" ->
            /\ ~({HEADER_KEY, RESPONSE_KEY} \subseteq DOMAIN c)
            /\ "all_properties" \notin DOMAIN c

\* C14: a read that reaches the store, misses and finds the database failing
\* raises to its caller, with the query as its last call, and leaves the
\* store exactly as it was: nothing is stored for the key.
C14_RepositoryFailurePropagates ==
    [][(/\ last'.op \in ReadOps
        /\ redis_up /\ redis_up'
        /\ ~db_up /\ ~db_up'
        /\ ReadMisses(last'.op, last'.arg, cache))
       => (/\ last'.raised
           /\ last'.ret = None
           /\ last'.events[Len(last'.events)][1] = "db.query"
           /\ \A i \in 1..Len(last'.events) : last'.events[i][1] # "cache.set"
           /\ cache' = cache
           /\ db' = db)]_vars

\* The listing endpoint has raised on a database failure, with other entries
\* in the store.
C14_Witness ==
    /\ last.op = "property_list"
    /\ last.raised
    /\ redis_up
    /\ ~db_up
    /\ "property_count" \in DOMAIN cache
    /\ RESPONSE_KEY \notin DOMAIN cache

\* C13: the response cache is two entries, the header list and the
\* response, written together by the endpoint's own miss and by nothing
\* else, and removed by nothing but the passing of time: writes, their
\* invalidation and the administrative clear leave them as they are.
\* While they are there (at most PAGE_TTL seconds) the endpoint returns the
\* response as stored, with no call but the two lookups and no change to
\* the store.  When they are not there the view runs: the response is the
\* current list, both entries are stored for PAGE_TTL seconds, and
\* 'all_properties' is filled if it was missing and left alone if it was
\* not.
C13_ResponseCache ==
    [][/\ (HEADER_KEY \in DOMAIN cache) = (RESPONSE_KEY \in DOMAIN cache)
       /\ RESPONSE_KEY \in DOMAIN cache =>
             /\ cache[RESPONSE_KEY].ttl <= PAGE_TTL
             /\ cache[HEADER_KEY] = [value |-> <<>>,
                                     ttl |-> cache[RESPONSE_KEY].ttl]
             /\ IF last'.op = "idle"
                THEN RESPONSE_KEY \in DOMAIN cache' =>
                        /\ cache'[RESPONSE_KEY].value = cache[RESPONSE_KEY].value
                        /\ cache'[RESPONSE_KEY].ttl < cache[RESPONSE_KEY].ttl
                        /\ cache'[HEADER_KEY].value = cache[HEADER_KEY].value
                ELSE /\ RESPONSE_KEY \in DOMAIN cache'
                     /\ cache'[RESPONSE_KEY] = cache[RESPONSE_KEY]
                     /\ cache'[HEADER_KEY] = cache[HEADER_KEY]
             /\ last'.op = "property_list" =>
                   /\ last'.hit
                   /\ last'.ret = Some(cache[RESPONSE_KEY].value)
                   /\ last'.events = << <<"cache.get", HEADER_KEY>>,
                                        <<"cache.get", RESPONSE_KEY>> >>
                   /\ cache' = cache
       /\ RESPONSE_KEY \notin DOMAIN cache =>
             /\ last'.op # "property_list" =>
                   /\ RESPONSE_KEY \notin DOMAIN cache'
                   /\ HEADER_KEY \notin DOMAIN cache'
             /\ last'.op = "property_list" =>
                   /\ ~last'.hit
                   /\ last'.ret = Some(RepositoryResult("property_list", None))
                   /\ last'.events[1] = <<"cache.get", HEADER_KEY>>
                   /\ cache'[HEADER_KEY] = [value |-> <<>>, ttl |-> PAGE_TTL]
                   /\ cache'[RESPONSE_KEY] =
                         [value |-> last'.ret.v, ttl |-> PAGE_TTL]
                   /\ cache'["all_properties"] =
                         IF "all_properties" \in DOMAIN cache
                         THEN cache["all_properties"]
                         ELSE [value |-> ObjectsAll(db), ttl |-> ALL_TTL]]_vars

\* The endpoint has answered from the response cache with a response that
\* still has the title a record had before its update, after that write's
\* invalidation removed 'all_properties'.
C13_Witness ==
    /\ last.op = "property_list"
    /\ last.hit
    /\ last.ret # Some(RepositoryResult("property_list", None))
    /\ last.ret.v.count = Cardinality(db)
    /\ \E r \in db : \E i \in 1..last.ret.v.count :
          /\ last.ret.v.properties[i].id = r.id
          /\ last.ret.v.properties[i].title # r.title
    /\ last.events = << <<"cache.get", HEADER_KEY>>,
                        <<"cache.get", RESPONSE_KEY>> >>
    /\ "all_properties" \notin DOMAIN cache
    /\ cache[RESPONSE_KEY].ttl < PAGE_TTL
    /\ cache[HEADER_KEY].ttl < PAGE_TTL

\* C16: clear_all_property_caches() makes two calls, the deletions of
\* 'all_properties' and of 'property_count'; afterwards the store holds
\* every other entry it held (the location lists and the stored response
\* with its header list among them) with the same value and time to live,
\* and the repository is as it was.
C16_ClearAllFrame ==
    [][last'.op = "clear_all_property_caches" =>
          /\ Len(last'.events) = 2
          /\ last'.events[1] = <<"cache.delete", "all_properties",
                                 "all_properties" \in DOMAIN cache>>
          /\ last'.events[2] = <<"cache.delete", "property_count",
                                 "property_count" \in DOMAIN cache>>
          /\ DOMAIN cache' = DOMAIN cache \ {"all_properties", "property_count"}
          /\ \A k \in DOMAIN cache' : cache'[k] = cache[k]
          /\ db' = db
          /\ next_id' = next_id]_vars

\* The clear has removed both keys and the store still holds the response
\* and a list for 'Austin' that lacks a record located in 'Austin, TX'.
C16_Witness ==
    /\ last.op = "clear_all_property_caches"
    /\ last.events[1][3] /\ last.events[2][3]
    /\ RESPONSE_KEY \in DOMAIN cache
    /\ HEADER_KEY \in DOMAIN cache
    /\ AustinKey \in DOMAIN cache
    /\ cache[AustinKey].value # ObjectsFilterLocation(db, Austin)
    /\ cache[AustinKey].ttl < LOCATION_TTL

\* 'properties_location_' + normalize(loc)
LocationKeyOf(loc) == "properties_location_" \o Join(ExpectedKeyChars(loc))

\* the keys that a call deleted, in order
DeletedKeys(e) ==
    LET deletes == SelectSeq(e, LAMBDA x : x[1] = "cache.delete")
    IN  [i \in 1..Len(deletes) |-> deletes[i][2]]

\* the keys of the location lists in the store c
LocationKeysIn(c) ==
    DOMAIN c \ {"all_properties", "property_count", HEADER_KEY, RESPONSE_KEY}

\* C15: an update that moves a record from location A to location B (with
\* different keys) deletes 'all_properties', the key of B and
\* 'property_count' and no other key; the entry under the key of A keeps
\* its value and time to live.  An entry under a location key has at most
\* 1800 seconds to live and stays as it is until time passes (with less
\* time to live or, once that has run out, gone) or a write whose record
\* has a location with that key removes it.
C15_UpdateLeavesOldLocation ==
    [][/\ (/\ last'.op = "update"
           /\ \E r \in db \ db' : r.id = last'.arg.v.id) =>
            LET instance == last'.arg.v
                old      == CHOOSE r \in db \ db' : r.id = instance.id
                keyA     == LocationKeyOf(old.location)
                keyB     == LocationKeyOf(instance.location)
            IN  keyA # keyB =>
                   /\ DeletedKeys(last'.events) =
                         <<"all_properties", keyB, "property_count">>
                   /\ keyB \notin DOMAIN cache'
                   /\ keyA \in DOMAIN cache =>
                         /\ keyA \in DOMAIN cache'
                         /\ cache'[keyA] = cache[keyA]
       /\ \A k \in LocationKeysIn(cache) :
             /\ cache[k].ttl <= LOCATION_TTL
             /\ \/ k \in DOMAIN cache' /\ cache'[k] = cache[k]
                \/ /\ last'.op = "idle"
                   /\ k \in DOMAIN cache' =>
                         /\ cache'[k].value = cache[k].value
                         /\ cache'[k].ttl < cache[k].ttl
                \/ /\ last'.op \in WriteOps
                   /\ LocationKeyOf(last'.arg.v.location) = k
                   /\ k \notin DOMAIN cache']_vars

\* A record has moved from 'Austin' to 'Miami, FL' and the list stored for
\* 'Austin' still holds it, located in 'Austin'.
C15_Witness ==
    /\ last.op = "update"
    /\ last.arg.v.location = MiamiFL
    /\ AustinKey \in DOMAIN cache
    /\ \E i \in 1..Len(cache[AustinKey].value) :
          /\ cache[AustinKey].value[i].id = last.arg.v.id
          /\ cache[AustinKey].value[i].location = Austin
    /\ ObjectsFilterLocation(db, Austin) # cache[AustinKey].value

\* C19: a create, update or delete deletes, of the location keys, only
\* 'properties_location_' + normalize(record.location): that key is absent
\* afterwards and every other location entry keeps its value and time to
\* live, also the list of a query that the record's location contains
\* ('properties_location_austin' for a record in 'Austin, TX'), although a
\* miss fills a key with the records whose location contains the query,
\* whatever the letter case.
C19_OnlyExactKeyDeleted ==
    [][/\ last'.op \in WriteOps =>
            LET instance == last'.arg.v
                exact    == LocationKeyOf(instance.location)
            IN  /\ DeletedKeys(last'.events) =
                      <<"all_properties", exact, "property_count">>
                /\ exact \notin DOMAIN cache'
                /\ \A k \in LocationKeysIn(cache) \ {exact} :
                      k \in DOMAIN cache' /\ cache'[k] = cache[k]
       /\ (last'.op = "get_properties_by_location" /\ ~last'.hit) =>
            LET query   == last'.arg.v
                matches == {r \in db : \E i \in 1..Len(r.location) :
                               \E j \in i..Len(r.location) :
                                  StrLower(SubSeq(r.location, i, j)) =
                                  StrLower(query)}
            IN  /\ NewestFirst(last'.ret.v, matches)
                /\ cache'[LocationKeyOf(query)].value = last'.ret.v]_vars

\* A record located in 'Austin, TX' has been created and the list stored
\* for 'Austin', which a read would now fill with that record, lacks it.
C19_Witness ==
    /\ last.op = "create"
    /\ last.arg.v.location = AustinTX
    /\ AustinKey \in DOMAIN cache
    /\ \A i \in 1..Len(cache[AustinKey].value) :
          cache[AustinKey].value[i] # last.arg.v
    /\ \E i \in 1..Len(ObjectsFilterLocation(db, Austin)) :
          ObjectsFilterLocation(db, Austin)[i] = last.arg.v

\* C17: a worker whose lookup finds 'all_properties' missing goes on to
\* the repository whatever the other workers are doing, so several may
\* query for one fill; each such query answers with the complete list of
\* the records committed at that moment, newest first; the worker keeps
\* that list as it is until it stores it, whole, for ALL_TTL seconds; and
\* no other step puts a value under the key or changes the one there, so
\* the value under the key is always a list that one query answered with.
C17_RedundantQueryNotCorruption ==
    [][/\ \A w \in Workers :
             /\ (pc[w] = "idle" /\ pc'[w] = "missed") =>
                    "all_properties" \notin DOMAIN cache
             /\ (pc[w] = "missed" /\ pc'[w] # "missed") =>
                    /\ pc'[w] = "queried"
                    /\ ~local'[w].none
                    /\ NewestFirst(local'[w].v, db)
             /\ (pc[w] = "queried" /\ pc'[w] = "queried") =>
                    local'[w] = local[w]
             /\ (pc[w] = "queried" /\ pc'[w] # "queried") =>
                    cache'["all_properties"] =
                        [value |-> local[w].v, ttl |-> ALL_TTL]
       /\ ("all_properties" \in DOMAIN cache' /\
           ("all_properties" \in DOMAIN cache =>
               cache'["all_properties"].value #
                   cache["all_properties"].value)) =>
             \E w \in Workers : pc[w] = "queried" /\ pc'[w] # "queried"]_vars

\* Both workers have missed and queried for the same fill, and a write
\* committed between the two queries: they hold different lists.
C17_Witness ==
    /\ \A w \in Workers : pc[w] = "queried"
    /\ "all_properties" \notin DOMAIN cache
    /\ local[1] # local[2]

\* A step of the passing of time: no operation returns, no worker moves.
TimeStep == last' = Idle /\ pc' = pc

\* A worker stores the list it queried, whatever has been written since,
\* for ALL_TTL seconds; a lookup that finds an entry returns its value,
\* without a query and without a change to the store; an entry that is
\* there stays as it is, value and time to live, unless time passes, one
\* of the operations ops deletes it or, when fills are allowed for, a
\* worker that missed earlier stores its own list over it.
StoredAndServed(ops, fills) ==
    /\ \A w \in Workers :
          (pc[w] = "queried" /\ pc'[w] = "idle") =>
              cache'["all_properties"] = [value |-> local[w].v, ttl |-> ALL_TTL]
    /\ "all_properties" \in DOMAIN cache =>
          /\ cache["all_properties"].ttl <= ALL_TTL
          /\ \A w \in Workers : pc[w] = "idle" => pc'[w] # "missed"
          /\ (last'.op = "get_all_properties" /\ pc' = pc) =>
                /\ last'.hit
                /\ last'.ret = Some(cache["all_properties"].value)
                /\ NoQuery(last'.events)
                /\ cache' = cache
          /\ \/ /\ "all_properties" \in DOMAIN cache'
                /\ cache'["all_properties"] = cache["all_properties"]
             \/ /\ TimeStep
                /\ \/ /\ cache["all_properties"].ttl <= TickStep
                      /\ "all_properties" \notin DOMAIN cache'
                   \/ /\ cache["all_properties"].ttl > TickStep
                      /\ cache'["all_properties"] =
                            [value |-> cache["all_properties"].value,
                             ttl |-> cache["all_properties"].ttl - TickStep]
             \/ /\ "all_properties" \notin DOMAIN cache'
                /\ \/ last'.op \in ops /\ pc' = pc
                   \/ \E w \in Workers :
                         /\ pc'[w] # pc[w]
                         /\ pc'[w] \in {"list_deleted", "clearing"}
                         /\ local'[w].v.op \in ops
             \/ /\ fills
                /\ \E w \in Workers : pc[w] = "queried" /\ pc'[w] = "idle"

\* C18 as claimed: the list a worker queried before a write is stored after
\* that write's invalidation and served as a hit to every reader until the
\* lapse of its time to live or a later write removes it; nothing else
\* removes or replaces it.
C18_RemovedOnlyByTtlOrWrite ==
    [][StoredAndServed(WriteOps, FALSE)]_vars

ClearOps == {"clear_properties_cache", "clear_all_property_caches"}

\* C18: the list a worker queried before a write is stored after that
\* write's invalidation and served as a hit to every reader for as long as
\* it is there; it stays there, as it was stored, until its time to live
\* lapses, a later write, clear_properties_cache() or
\* clear_all_property_caches() deletes it, or another worker whose lookup
\* missed earlier stores the list it queried over it; nothing else removes
\* or replaces it.
C18_StaleFill ==
    [][StoredAndServed(WriteOps \cup ClearOps, TRUE)]_vars

\* A lookup has been answered from the store with a list that is not the
\* repository's, which holds a record; no call is under way.
C18_Witness ==
    /\ last.op = "get_all_properties"
    /\ last.hit
    /\ last.ret.v # ObjectsAll(db)
    /\ db # {}
    /\ \A w \in Workers : pc[w] = "idle"

\* C21: with operations run one at a time, whenever 'all_properties' is in
\* the store its value lists exactly the records now in the repository,
\* as they now are, newest first; whenever 'property_count' is in the
\* store its value is the number of records now in the repository; so
\* when both are there the count is the length of the list.
C21_EntriesMatchRepository ==
    /\ "all_properties" \in DOMAIN cache =>
          /\ NewestFirst(cache["all_properties"].value, db)
          /\ cache["all_properties"].value = ObjectsAll(db)
    /\ "property_count" \in DOMAIN cache =>
          cache["property_count"].value = Cardinality(db)
    /\ ("all_properties" \in DOMAIN cache /\ "property_count" \in DOMAIN cache) =>
          cache["property_count"].value = Len(cache["all_properties"].value)

\* Both entries are in the store, filled at different times after an
\* update, with two records in the repository.
C21_Witness ==
    /\ "all_properties" \in DOMAIN cache
    /\ "property_count" \in DOMAIN cache
    /\ cache["all_properties"].ttl # cache["property_count"].ttl
    /\ Cardinality(db) = 2
    /\ \E r \in db : r.price = 150 /\ r.location = Austin
    /\ last.op = "warm_cache"

====
